---- MODULE Spec2Model ----
(***************************************************************************)
(* Model of react_agent/human_in_the_loop.py: add_human_in_the_loop wraps  *)
(* a tool so that every invocation first hands a review request to the     *)
(* host (interrupt), suspends, and on resumption branches on the first     *)
(* response's type tag.                                                    *)
(*                                                                         *)
(* Python values are tagged records: None, str, bool, dict, list.  A dict  *)
(* is a function from key strings to values, a list is a sequence.         *)
(***************************************************************************)
EXTENDS Integers, Sequences, FiniteSets, TLC

VARIABLES pc, tool_name, interrupt_config, final_interrupt_config, tool_input,
          interrupts, response_list, invocations, output, error, calls

vars == <<pc, tool_name, interrupt_config, final_interrupt_config, tool_input,
          interrupts, response_list, invocations, output, error, calls>>

-----------------------------------------------------------------------------
(* Bounds of the model *)

\* wrapped-tool invocations made by the caller in one behaviour
MaxCalls == 2

\* longest response list the host delivers on resumption
MaxResponses == 2

-----------------------------------------------------------------------------
(* Python values *)

None == [kind |-> "None"]

Str(s) == [kind |-> "str", s |-> s]

Bool(b) == [kind |-> "bool", b |-> b]

Dict(f) == [kind |-> "dict", d |-> f]

List(q) == [kind |-> "list", l |-> q]

EmptyDict == Dict([k \in {} |-> None])

\* markers for "nothing yet": no response delivered, no value returned, no exception
Pending == [kind |-> "pending"]

NoOutput == [kind |-> "unset"]

NoError == [kind |-> "noexc"]

Exc(t, m) == [kind |-> "exc", type |-> t, msg |-> m]

\* bool(v) for the kinds used
Truthy(v) ==
    CASE v.kind = "None" -> FALSE
      [] v.kind = "str"  -> v.s # ""
      [] v.kind = "bool" -> v.b
      [] v.kind = "dict" -> DOMAIN v.d # {}
      [] v.kind = "list" -> Len(v.l) # 0

\* dict.get(key): the value, or None when the key is absent
Get(v, key) == IF key \in DOMAIN v.d THEN v.d[key] ELSE None

\* Python's substring test on str
IsSubstring(sub, s) ==
    \/ Len(sub) = 0
    \/ \E i \in 1..(Len(s) - Len(sub) + 1) : SubSeq(s, i, i + Len(sub) - 1) = sub

\* "key in v": key membership for a dict, substring test for a str
Contains(key, v) ==
    CASE v.kind = "dict" -> key \in DOMAIN v.d
      [] v.kind = "str"  -> IsSubstring(key, v.s)

\* str(v) as an f-string interpolates it
Format(v) ==
    CASE v.kind = "None" -> "None"
      [] v.kind = "str"  -> v.s

-----------------------------------------------------------------------------
(* Inputs *)

ToolNames == {"search", "book_hotel"}

ToolInputs == {EmptyDict, Dict([query |-> Str("a")])}

default_config ==
    Dict([allow_accept  |-> Bool(TRUE),
          allow_edit    |-> Bool(TRUE),
          allow_respond |-> Bool(TRUE),
          allow_ignore  |-> Bool(TRUE)])

\* the interrupt_config argument: None, or a mapping the caller supplies
InterruptConfigs ==
    { None,
      Dict([allow_accept  |-> Bool(FALSE),
            allow_edit    |-> Bool(FALSE),
            allow_respond |-> Bool(FALSE),
            allow_ignore  |-> Bool(FALSE)]),
      Dict([allow_edit |-> Bool(FALSE)]),
      EmptyDict }

ResponseTypes ==
    {Str("accept"), Str("edit"), Str("response"), Str("ignore"),
     Str("reject"), Str("Accept"), None}

EditedInputs == {Dict([query |-> Str("b")]), Dict([query |-> Str("a")]), None}

ResponseArgs ==
    {None, Str(""), Str("looks fine"), Str("no args"), EmptyDict,
     Dict([note |-> Str("x")])}
    \cup {Dict([args |-> e]) : e \in EditedInputs}

\* response records: the type and args keys are each present or absent
Responses ==
    {Dict([type |-> t, args |-> a]) : t \in ResponseTypes, a \in ResponseArgs}
    \cup {Dict([type |-> t]) : t \in ResponseTypes}
    \cup {Dict([args |-> a]) : a \in ResponseArgs}
    \cup {EmptyDict, Str("accept")}

\* responses that may follow the first one in a longer list
LaterResponses == {Dict([type |-> Str("accept")]), Dict([type |-> Str("ignore")])}

RECURSIVE Tails(_)
Tails(n) ==
    IF n = 0 THEN {<<>>}
    ELSE Tails(n - 1) \cup {Append(q, r) : q \in Tails(n - 1), r \in LaterResponses}

\* what interrupt() can return on resumption: None, or a list of responses
ResponseLists ==
    {None, List(<<>>)}
    \cup {List(<<r>> \o q) : r \in Responses, q \in Tails(MaxResponses - 1)}

-----------------------------------------------------------------------------
(* The original tool *)

\* the value tool_instance.ainvoke(args) produces
OriginalTool(name, args) == [kind |-> "result", tool |-> name, input |-> args]

\* an exception raised inside the original tool
ToolError == Exc("ToolException", "tool failed")

-----------------------------------------------------------------------------
(* call_tool_with_interrupt after resumption: what the coroutine does next *)

Raise(t, m) == [act |-> "raise", val |-> Exc(t, m)]

Return(v) == [act |-> "return", val |-> v]

Invoke(args) == [act |-> "ainvoke", val |-> args]

\* accept_branch with the response's args passed on instead of the caller's
accept_branch_response_args(input, response_args) == Invoke(response_args)

\* response_type == "accept": run the original tool on the caller's arguments
accept_branch(input, response_args) == Invoke(input)

\* edit_branch with the edited arguments found but the caller's passed on
edit_branch_original_args(input, response_args) ==
    IF Truthy(response_args) /\ Contains("args", response_args)
    THEN IF response_args.kind = "dict"
         THEN Invoke(input)
         ELSE Raise("TypeError", "string indices must be integers")
    ELSE Raise("ValueError",
               "Edit response type received, but valid 'args' were not found in the response.")

\* edit_branch falling back to the caller's arguments when no edit is found
edit_branch_fallback(input, response_args) ==
    IF Truthy(response_args) /\ Contains("args", response_args)
    THEN IF response_args.kind = "dict"
         THEN Invoke(response_args.d["args"])
         ELSE Raise("TypeError", "string indices must be integers")
    ELSE Invoke(input)

\* response_type == "edit": run the original tool on response_args["args"]
edit_branch(input, response_args) ==
    IF Truthy(response_args) /\ Contains("args", response_args)
    THEN IF response_args.kind = "dict"
         THEN Invoke(response_args.d["args"])
         ELSE Raise("TypeError", "string indices must be integers")
    ELSE Raise("ValueError",
               "Edit response type received, but valid 'args' were not found in the response.")

\* response_branch with a missing payload turned into an empty string
response_branch_or_empty(input, response_args) ==
    IF Truthy(response_args) THEN Return(response_args) ELSE Return(Str(""))

\* response_type == "response": the payload is the tool's output
response_branch(input, response_args) == Return(response_args)

\* ignore_branch echoing the response's payload when there is one
ignore_branch_echo(name, input, response_args) ==
    IF Truthy(response_args)
    THEN Return(response_args)
    ELSE Return(Str("Tool call '" \o name \o "' was ignored by the user."))

\* response_type == "ignore": a notice naming the tool
ignore_branch(name, input, response_args) ==
    Return(Str("Tool call '" \o name \o "' was ignored by the user."))

\* unsupported_branch with a message that leaves the tag out
unsupported_branch_no_tag(response_type) ==
    Raise("ValueError", "Unsupported interrupt response type received.")

\* any other response_type
unsupported_branch(response_type) ==
    Raise("ValueError",
          "Unsupported interrupt response type received: '" \o Format(response_type) \o "'")

\* the branch on the first response's type tag
dispatch(name, input, response_from_human) ==
    IF response_from_human.kind # "dict"
    THEN Raise("AttributeError", "'str' object has no attribute 'get'")
    ELSE LET response_type == Get(response_from_human, "type")
             response_args == Get(response_from_human, "args")
         IN  IF response_type = Str("accept") THEN accept_branch(input, response_args)
             ELSE IF response_type = Str("edit") THEN edit_branch(input, response_args)
             ELSE IF response_type = Str("response") THEN response_branch(input, response_args)
             ELSE IF response_type = Str("ignore") THEN ignore_branch(name, input, response_args)
             ELSE unsupported_branch(response_type)

\* handle_response without the emptiness check: indexing fails instead
handle_response_unchecked(name, input, responses) ==
    IF responses.kind = "list" /\ Len(responses.l) > 0
    THEN dispatch(name, input, responses.l[1])
    ELSE IF responses.kind = "list"
         THEN Raise("IndexError", "list index out of range")
         ELSE Raise("TypeError", "'NoneType' object is not subscriptable")

\* everything after interrupt() returns
handle_response(name, input, responses) ==
    IF ~Truthy(responses)
    THEN Raise("ValueError", "Interrupt did not return a response.")
    ELSE dispatch(name, input, responses.l[1])

\* the request record built before suspending
interrupt_payload(name, input, config) ==
    Dict([action_request |-> Dict([action |-> Str(name), args |-> input]),
          config         |-> config,
          description    |-> Str("Please review the tool call to '" \o name \o "'.")])

-----------------------------------------------------------------------------
(* State machine *)

Init ==
    /\ pc = "unwrapped"
    /\ tool_name = ""
    /\ interrupt_config = None
    /\ final_interrupt_config = None
    /\ tool_input = None
    /\ interrupts = <<>>
    /\ response_list = Pending
    /\ invocations = <<>>
    /\ output = NoOutput
    /\ error = NoError
    /\ calls = 0

\* wrap a tool: fix its name and the permissions map sent with each request
add_human_in_the_loop(name, config) ==
    /\ pc = "unwrapped"
    /\ tool_name' = name
    /\ interrupt_config' = config
    /\ final_interrupt_config' = IF config # None THEN config ELSE default_config
    /\ pc' = "ready"
    /\ UNCHANGED <<tool_input, interrupts, response_list, invocations, output, error, calls>>

\* the caller invokes the wrapped tool: build the payload, interrupt, suspend
call_tool_with_interrupt(input) ==
    /\ pc \in {"ready", "returned", "raised"}
    /\ calls < MaxCalls
    /\ calls' = calls + 1
    /\ tool_input' = input
    /\ interrupts' = <<List(<<interrupt_payload(tool_name, input, final_interrupt_config)>>)>>
    /\ response_list' = Pending
    /\ invocations' = <<>>
    /\ output' = NoOutput
    /\ error' = NoError
    /\ pc' = "suspended"
    /\ UNCHANGED <<tool_name, interrupt_config, final_interrupt_config>>

\* the coroutine runs from interrupt()'s return to its next await, return or raise
Deliver(responses, next) ==
    /\ response_list' = responses
    /\ CASE next.act = "raise" ->
              /\ error' = next.val
              /\ pc' = "raised"
              /\ UNCHANGED <<invocations, output>>
         [] next.act = "return" ->
              /\ output' = next.val
              /\ pc' = "returned"
              /\ UNCHANGED <<invocations, error>>
         [] next.act = "ainvoke" ->
              /\ invocations' = Append(invocations, next.val)
              /\ pc' = "awaiting"
              /\ UNCHANGED <<output, error>>
    /\ UNCHANGED <<tool_name, interrupt_config, final_interrupt_config, tool_input,
                   interrupts, calls>>

\* Resume asking the host again when the response cannot be used
ResumeRetry(responses) ==
    LET next == handle_response(tool_name, tool_input, responses)
    IN  IF next.act = "raise"
        THEN /\ pc = "suspended"
             /\ response_list' = responses
             /\ interrupts' = Append(interrupts,
                    List(<<interrupt_payload(tool_name, tool_input, final_interrupt_config)>>))
             /\ UNCHANGED <<pc, tool_name, interrupt_config, final_interrupt_config,
                            tool_input, invocations, output, error, calls>>
        ELSE /\ pc = "suspended"
             /\ Deliver(responses, next)

\* the permission flag a response type answers to
FlagOf(response_type) ==
    CASE response_type = Str("accept")   -> "allow_accept"
      [] response_type = Str("edit")     -> "allow_edit"
      [] response_type = Str("response") -> "allow_respond"
      [] response_type = Str("ignore")   -> "allow_ignore"
      [] OTHER                           -> "none"

\* Resume refusing a response whose permission flag was sent as false
ResumeGated(responses) ==
    LET first == IF Truthy(responses) THEN responses.l[1] ELSE EmptyDict
        flag  == IF first.kind = "dict" THEN FlagOf(Get(first, "type")) ELSE "none"
    IN  /\ pc = "suspended"
        /\ IF Get(final_interrupt_config, flag) = Bool(FALSE)
           THEN Deliver(responses, Raise("ValueError", "Response type not permitted."))
           ELSE Deliver(responses, handle_response(tool_name, tool_input, responses))

\* the host resumes the call with interrupt()'s return value
Resume(responses) ==
    /\ pc = "suspended"
    /\ Deliver(responses, handle_response(tool_name, tool_input, responses))

\* the awaited original tool completes; its result is the call's output
ToolReturns ==
    /\ pc = "awaiting"
    /\ output' = OriginalTool(tool_name, invocations[Len(invocations)])
    /\ pc' = "returned"
    /\ UNCHANGED <<tool_name, interrupt_config, final_interrupt_config, tool_input,
                   interrupts, response_list, invocations, error, calls>>

\* the awaited original tool raises; the exception propagates
ToolRaises ==
    /\ pc = "awaiting"
    /\ error' = ToolError
    /\ pc' = "raised"
    /\ UNCHANGED <<tool_name, interrupt_config, final_interrupt_config, tool_input,
                   interrupts, response_list, invocations, output, calls>>

Next ==
    \/ \E name \in ToolNames, config \in InterruptConfigs : add_human_in_the_loop(name, config)
    \/ \E input \in ToolInputs : call_tool_with_interrupt(input)
    \/ \E responses \in ResponseLists : Resume(responses)
    \/ ToolReturns
    \/ ToolRaises

Spec == Init /\ [][Next]_vars

-----------------------------------------------------------------------------
(* Properties *)

\* interrupt() has returned in the current call
Delivered == response_list # Pending

\* the delivered value is a non-empty list whose first element is a response record
HasFirst ==
    /\ Delivered
    /\ response_list.kind = "list"
    /\ Len(response_list.l) > 0
    /\ response_list.l[1].kind = "dict"

FirstType == Get(response_list.l[1], "type")

FirstArgs == Get(response_list.l[1], "args")

\* the first response carries a mapping with a nested "args" entry
HasEditedArgs == FirstArgs.kind = "dict" /\ "args" \in DOMAIN FirstArgs.d

KnownTypes == {Str("accept"), Str("edit"), Str("response"), Str("ignore")}

\* the wrapped call ended in an exception of its own, not one of the original tool
RaisedOwnError == pc = "raised" /\ error.kind = "exc" /\ error # ToolError

\* C1: when the first response has type "accept", the original tool is invoked
\* exactly once, with the caller's arguments unmodified whatever the response's
\* args hold, and the value the call returns is the original tool's result.
C1_AcceptInvokesOriginal ==
    (HasFirst /\ FirstType = Str("accept")) =>
        /\ invocations = <<tool_input>>
        /\ pc \in {"awaiting", "returned", "raised"}
        /\ (pc = "awaiting" => output = NoOutput /\ error = NoError)
        /\ (pc = "returned" => output = OriginalTool(tool_name, tool_input))
        /\ (pc = "raised" => error = ToolError /\ output = NoOutput)

\* an accepted call has returned although the response carried other arguments
C1_Witness ==
    /\ HasFirst
    /\ FirstType = Str("accept")
    /\ HasEditedArgs
    /\ FirstArgs.d["args"] # tool_input
    /\ pc = "returned"
    /\ output = OriginalTool(tool_name, tool_input)

\* C2: when the first response has type "edit" and its args hold a nested "args"
\* entry E, the original tool is invoked exactly once with E, not with the
\* caller's arguments, and the value the call returns is the original tool's result.
C2_EditInvokesWithReplacement ==
    (HasFirst /\ FirstType = Str("edit") /\ HasEditedArgs) =>
        /\ invocations = <<FirstArgs.d["args"]>>
        /\ pc \in {"awaiting", "returned", "raised"}
        /\ (pc = "awaiting" => output = NoOutput /\ error = NoError)
        /\ (pc = "returned" => output = OriginalTool(tool_name, FirstArgs.d["args"]))
        /\ (pc = "raised" => error = ToolError /\ output = NoOutput)

\* an edited call has returned the tool's result on arguments other than the caller's
C2_Witness ==
    /\ HasFirst
    /\ FirstType = Str("edit")
    /\ HasEditedArgs
    /\ FirstArgs.d["args"] # tool_input
    /\ pc = "returned"
    /\ output = OriginalTool(tool_name, FirstArgs.d["args"])

\* C3: when the first response has type "edit" and its args are absent, null,
\* empty or without a nested "args" entry, the call ends in an error, the
\* original tool is not invoked and no value is returned.
C3_EditWithoutArgsRaises ==
    (HasFirst /\ FirstType = Str("edit") /\ ~HasEditedArgs) =>
        /\ RaisedOwnError
        /\ invocations = <<>>
        /\ output = NoOutput

\* an edit response with no args key at all has ended the call in an error
C3_Witness ==
    /\ HasFirst
    /\ FirstType = Str("edit")
    /\ "args" \notin DOMAIN response_list.l[1].d
    /\ tool_input # EmptyDict
    /\ pc = "raised"

\* C4: when the first response has type "response", the call returns that
\* response's args payload verbatim, None included, and the original tool is
\* never invoked.
C4_ResponseReturnsPayload ==
    (HasFirst /\ FirstType = Str("response")) =>
        /\ pc = "returned"
        /\ output = FirstArgs
        /\ error = NoError
        /\ invocations = <<>>

\* a response without payload has been returned as None
C4_Witness ==
    /\ HasFirst
    /\ FirstType = Str("response")
    /\ FirstArgs = None
    /\ pc = "returned"
    /\ output = None

\* C5: when the first response has type "ignore", the call returns a fixed
\* notice built from the tool's name alone, and the original tool is never invoked.
C5_IgnoreReturnsNotice ==
    (HasFirst /\ FirstType = Str("ignore")) =>
        /\ pc = "returned"
        /\ output = Str("Tool call '" \o tool_name \o "' was ignored by the user.")
        /\ error = NoError
        /\ invocations = <<>>

\* an ignored call with arguments and a response payload has returned
C5_Witness ==
    /\ HasFirst
    /\ FirstType = Str("ignore")
    /\ Truthy(FirstArgs)
    /\ tool_input # EmptyDict
    /\ pc = "returned"

\* C6: when the first response's type tag is none of accept, edit, response,
\* ignore (a missing tag included), the call ends in an error whose message
\* names the received tag, and the original tool is not invoked.
C6_UnknownTypeRaisesNamingTag ==
    (HasFirst /\ FirstType \notin KnownTypes) =>
        /\ RaisedOwnError
        /\ IsSubstring("'" \o Format(FirstType) \o "'", error.msg)
        /\ invocations = <<>>
        /\ output = NoOutput

\* a response with an unrecognized tag has ended the call in an error
C6_Witness ==
    /\ HasFirst
    /\ FirstType = Str("reject")
    /\ pc = "raised"
    /\ IsSubstring("reject", error.msg)

\* the first response is an edit whose args are null, absent or a mapping without "args"
MissingArgsEdit ==
    /\ HasFirst
    /\ FirstType = Str("edit")
    /\ \/ FirstArgs = None
       \/ FirstArgs.kind = "dict" /\ "args" \notin DOMAIN FirstArgs.d

\* C7: when the host resumes with no responses (an empty list or None), the call
\* ends in an error and the original tool is not invoked; the error is of the
\* same kind as that of an edit response missing its args and of an unrecognized
\* response type.
C7_NoResponseRaisesSameKind ==
    /\ (Delivered /\ response_list \in {None, List(<<>>)}) =>
          /\ RaisedOwnError
          /\ error.type = "ValueError"
          /\ invocations = <<>>
          /\ output = NoOutput
    /\ MissingArgsEdit => (RaisedOwnError /\ error.type = "ValueError")
    /\ (HasFirst /\ FirstType \notin KnownTypes) =>
          (RaisedOwnError /\ error.type = "ValueError")

\* the host has resumed the call with an empty list
C7_Witness ==
    /\ response_list = List(<<>>)
    /\ pc = "raised"
    /\ error.type = "ValueError"

\* the request handed to the host in the current call
SentPayload == interrupts[1].l[1]

PermissionFlags == {"allow_accept", "allow_edit", "allow_respond", "allow_ignore"}

\* C8: for every permissions configuration given at wrap time, the request
\* handed to the host names the tool, carries the caller's arguments and a
\* description, and its config carries all four boolean permission flags, all
\* true when no configuration was given.
C8_RequestRecordComplete ==
    (interrupts # <<>>) =>
        /\ Get(Get(SentPayload, "action_request"), "action") = Str(tool_name)
        /\ Get(Get(SentPayload, "action_request"), "args") = tool_input
        /\ "description" \in DOMAIN SentPayload.d
        /\ PermissionFlags \subseteq DOMAIN Get(SentPayload, "config").d
        /\ \A f \in PermissionFlags \cap DOMAIN Get(SentPayload, "config").d :
               Get(SentPayload, "config").d[f].kind = "bool"
        /\ (interrupt_config = None =>
               \A f \in PermissionFlags : Get(Get(SentPayload, "config"), f) = Bool(TRUE))

\* C9: in every call the request is handed to the host exactly once and before
\* any invocation of the original tool; the tool is never invoked while the call
\* is suspended, at most once per call, and only on an accept or a valid edit;
\* after an error the call never hands the request to the host again.
C9_SingleRequestThenAtMostOneInvocation ==
    /\ [](/\ (pc \in {"suspended", "awaiting", "returned", "raised"} => Len(interrupts) = 1)
          /\ (pc = "suspended" => ~Delivered /\ invocations = <<>>)
          /\ (~Delivered => invocations = <<>>)
          /\ Len(invocations) <= 1
          /\ (invocations # <<>> =>
                /\ HasFirst
                /\ \/ FirstType = Str("accept")
                   \/ FirstType = Str("edit") /\ HasEditedArgs))
    /\ [][Len(invocations') > Len(invocations) =>
            Len(interrupts) = 1 /\ interrupts' = interrupts]_vars
    /\ [][(pc = "raised" /\ calls' = calls) => (pc' = "raised" /\ interrupts' = interrupts)]_vars
    /\ [][(Delivered /\ calls' = calls) => interrupts' = interrupts]_vars

\* a second call has ended in an error of its own with one request sent and no invocation
C9_Witness ==
    /\ calls = 2
    /\ RaisedOwnError
    /\ Len(interrupts) = 1
    /\ invocations = <<>>

\* the permission flag was sent to the host as false
SentFalse(flag) ==
    /\ interrupts # <<>>
    /\ Get(Get(SentPayload, "config"), flag) = Bool(FALSE)

\* C10: the permission flags sent in the request do not change the outcome: a
\* response of a type whose flag was sent as false is processed as if the flag
\* were true, so an accept or a valid edit still invokes the original tool.
C10_FlagsNotEnforced ==
    /\ (HasFirst /\ FirstType = Str("accept") /\ SentFalse("allow_accept")) =>
          (invocations = <<tool_input>> /\ ~RaisedOwnError)
    /\ (HasFirst /\ FirstType = Str("edit") /\ HasEditedArgs /\ SentFalse("allow_edit")) =>
          (invocations = <<FirstArgs.d["args"]>> /\ ~RaisedOwnError)
    /\ (HasFirst /\ FirstType = Str("response") /\ SentFalse("allow_respond")) =>
          (pc = "returned" /\ output = FirstArgs)
    /\ (HasFirst /\ FirstType = Str("ignore") /\ SentFalse("allow_ignore")) =>
          (pc = "returned" /\ invocations = <<>>)

\* an edit was applied and the tool ran although allow_edit was sent as false
C10_Witness ==
    /\ HasFirst
    /\ FirstType = Str("edit")
    /\ HasEditedArgs
    /\ SentFalse("allow_edit")
    /\ pc = "returned"
    /\ output = OriginalTool(tool_name, FirstArgs.d["args"])

====
